---- MODULE Spec2Model ----
(***************************************************************************)
(* Model of job_match_two.py: skill normalisation (JobSeeker / Job         *)
(* constructors), the store round trip (insert_data / SELECT), the scorer  *)
(* match_skills, the per-jobseeker unit process_recommendations, the       *)
(* pool.starmap fan-out with its join, the final sort and main's report.   *)
(*                                                                         *)
(* Strings are sequences of one-character strings.  Python floats are      *)
(* IEEE-754 binary64 values, kept as a 53-bit mantissa (three limbs) and a  *)
(* binary exponent; every float operation rounds to nearest, ties to even, *)
(* as the hardware does.                                                   *)
(***************************************************************************)
EXTENDS Integers, Sequences, FiniteSets, TLC

\* ------------------------------------------------------------------------
\* Bounds of the model
\* ------------------------------------------------------------------------
MaxLen == 4
MaxSeekers == 2
MaxJobs == 2
MaxId == 2
NumWorkers == 2
\* Width of the binary64 mantissa, and the factor of the percentage.
MantissaBits == 53
Hundred == 100

\* ------------------------------------------------------------------------
\* Generic helpers
\* ------------------------------------------------------------------------
Range(s) == {s[i] : i \in DOMAIN s}

Perms(S) == {p \in [1..Cardinality(S) -> S] : \A x \in S : \E i \in DOMAIN p : p[i] = x}

SeqsUpTo(S, n) == UNION {[1..k -> S] : k \in 0..n}

\* ------------------------------------------------------------------------
\* Strings: str.split(','), str.strip(), str.lower(), ",".join(...)
\* ------------------------------------------------------------------------
Chars == {"a", "A", "b", " ", ","}

Lower(c) == IF c = "A" THEN "a" ELSE c

LowerStr(t) == [i \in DOMAIN t |-> Lower(t[i])]

RECURSIVE StripLeft(_)
StripLeft(t) == IF t # <<>> /\ Head(t) = " " THEN StripLeft(Tail(t)) ELSE t

RECURSIVE StripRight(_)
StripRight(t) ==
    IF t # <<>> /\ t[Len(t)] = " " THEN StripRight(SubSeq(t, 1, Len(t) - 1)) ELSE t

Strip(t) == StripRight(StripLeft(t))

\* Index of the first comma of s, 0 when there is none.
FirstComma(s) ==
    IF \E i \in DOMAIN s : s[i] = ","
    THEN CHOOSE i \in DOMAIN s : s[i] = "," /\ \A j \in 1..(i - 1) : s[j] # ","
    ELSE 0

\* s.split(','): the pieces between commas; the empty string gives one empty piece.
RECURSIVE Split(_)
Split(s) ==
    LET i == FirstComma(s)
    IN  IF i = 0 THEN <<s>>
        ELSE <<SubSeq(s, 1, i - 1)>> \o Split(SubSeq(s, i + 1, Len(s)))

\* Variant: ", ".join(pieces)
RECURSIVE JoinCommaSpace(_)
JoinCommaSpace(pieces) ==
    IF pieces = <<>> THEN <<>>
    ELSE IF Len(pieces) = 1 THEN pieces[1]
    ELSE pieces[1] \o <<",", " ">> \o JoinCommaSpace(Tail(pieces))

\* ",".join(pieces)
RECURSIVE Join(_)
Join(pieces) ==
    IF pieces = <<>> THEN <<>>
    ELSE IF Len(pieces) = 1 THEN pieces[1]
    ELSE pieces[1] \o <<",">> \o Join(Tail(pieces))

\* set(skill.strip().lower() for skill in skills.split(','))
Normalize(raw) == {LowerStr(Strip(p)) : p \in Range(Split(raw))}

\* ",".join(js.skills): a set is iterated in an order that depends on the
\* process's string hashing, so every order is a possible column value.
RenderSkills(skills) == {Join(p) : p \in Perms(skills)}

\* set(js_data['skills'].split(',')) in the worker: no strip, no lower.
WorkerSkills(column) == Range(Split(column))

\* ------------------------------------------------------------------------
\* binary64 arithmetic: a float is [m |-> <<hi, mid, lo>>, e |-> exponent], the
\* 53-bit mantissa hi * Base^2 + mid * Base + lo (hi has 17 bits, its top bit
\* set), and the value mantissa * 2^e.  Zero has the mantissa <<0, 0, 0>>.
\* ------------------------------------------------------------------------
Base == 2^18

TopBase == 2^(MantissaBits - 2 * 18)

FZero == [m |-> <<0, 0, 0>>, e |-> 0]

\* Number of bits of n (0 for 0).
BitLen(n) == CHOOSE k \in 0..31 : n < 2^k /\ (k = 0 \/ n >= 2^(k - 1))

\* Smallest s with c * 2^s >= t (0 < c <= t).
RECURSIVE NormShift(_, _)
NormShift(c, t) == IF c >= t THEN 0 ELSE 1 + NormShift(2 * c, t)

\* mantissa + 1; the carry out of the top limb renormalises to 2^52 * 2.
MantissaInc(m, e) ==
    LET lo  == (m[3] + 1) % Base
        c3  == (m[3] + 1) \div Base
        mid == (m[2] + c3) % Base
        c2  == (m[2] + c3) \div Base
        hi  == m[1] + c2
    IN  IF hi = TopBase THEN [m |-> <<TopBase \div 2, 0, 0>>, e |-> e + 1]
        ELSE [m |-> <<hi, mid, lo>>, e |-> e]

\* Round the exact value (the kept mantissa, then a guard bit and a sticky
\* flag for what lies below it) to nearest, ties to even.
RoundEven(m, guard, sticky, e) ==
    IF guard /\ (sticky \/ m[3] % 2 = 1) THEN MantissaInc(m, e)
    ELSE [m |-> m, e |-> e]

\* c / t for integers 0 <= c <= t, 0 < t: Python's true division of two ints,
\* the correctly rounded quotient.
FDiv(c, t) ==
    IF c = 0 THEN FZero
    ELSE LET s  == NormShift(c, t)
             n0 == c * 2^s * (TopBase \div 2)
             q1 == n0 \div t
             r1 == n0 % t
             q2 == (r1 * Base) \div t
             r2 == (r1 * Base) % t
             q3 == (r2 * Base) \div t
             r3 == (r2 * Base) % t
         IN  RoundEven(<<q1, q2, q3>>, 2 * r3 >= t, 2 * r3 # t /\ r3 # 0,
                       -s - (MantissaBits - 1))

\* x * k for a float x and a small positive integer k (exactly representable),
\* the correctly rounded product.
FMul(x, k) ==
    IF x.m = <<0, 0, 0>> THEN FZero
    ELSE LET p3 == x.m[3] * k
             p2 == x.m[2] * k + p3 \div Base
             p1 == x.m[1] * k + p2 \div Base
             l3 == p3 % Base
             l2 == p2 % Base
             d  == BitLen(p1) - BitLen(TopBase - 1)
             D  == 2^d
             U  == Base \div D
             k1 == p1 \div D
             k2 == (p1 % D) * U + l2 \div D
             k3 == (l2 % D) * U + l3 \div D
             dropped == l3 % D
         IN  IF d = 0 THEN [m |-> <<p1, l2, l3>>, e |-> x.e]
             ELSE RoundEven(<<k1, k2, k3>>, dropped >= D \div 2,
                            dropped % (D \div 2) # 0, x.e + d)

\* x < y for two non-negative floats.
FLess(x, y) ==
    IF y.m = <<0, 0, 0>> THEN FALSE
    ELSE IF x.m = <<0, 0, 0>> THEN TRUE
    ELSE IF x.e # y.e THEN x.e < y.e
    ELSE IF x.m[1] # y.m[1] THEN x.m[1] < y.m[1]
    ELSE IF x.m[2] # y.m[2] THEN x.m[2] < y.m[2]
    ELSE x.m[3] < y.m[3]

\* ------------------------------------------------------------------------
\* State
\* ------------------------------------------------------------------------
VARIABLES
    pc,                     \* main's position
    jobseekers_csv,         \* rows of jobseekers.csv: [id, name, skills]
    jobs_csv,               \* rows of jobs.csv: [id, title, required_skills]
    jobseekers,             \* main: list of JobSeeker objects
    jobs,                   \* main: list of Job objects
    tbl_jobseekers,         \* table jobseekers: set of rows [id, name, skills]
    tbl_jobs,               \* table jobs: set of rows [id, title, required_skills]
    js_rows,                \* generate_recommendation_parallel: jobseekers (dicts)
    job_rows,               \* generate_recommendation_parallel: jobs (dicts)
    status,                 \* per starmap task: "pending", "running", "done", "failed"
    results,                \* per starmap task: the list its call returned
    recommendations,        \* the flattened list
    sorted_recommendations, \* the list generate_recommendation_parallel returns
    printed,                \* number of lines main has printed
    npc,                    \* position of one skill field on its way through the store
    raw,                    \* the raw skill string of a CSV row
    skills,                 \* the set the constructor builds from it
    column,                 \* the text insert_data stores for it
    rebuilt                 \* the set the worker rebuilds from the column

mainVars == <<pc, jobseekers_csv, jobs_csv, jobseekers, jobs, tbl_jobseekers, tbl_jobs,
              js_rows, job_rows, status, results, recommendations,
              sorted_recommendations, printed>>

normVars == <<npc, raw, skills, column, rebuilt>>

vars == <<mainVars, normVars>>

\* ------------------------------------------------------------------------
\* Inputs of the pipeline
\* ------------------------------------------------------------------------
Names == {"Alice"}

Titles == {"Ruby Developer"}

\* Skill fields of jobseekers.csv: "", "A, b"
SeekerFields == {<<>>, <<"A", ",", " ", "b">>}

\* Skill fields of jobs.csv: "", "a", "a,b,ab"
JobFields == {<<>>, <<"a">>, <<"a", ",", "b", ",", "a", "b">>}

SeekerCsvRows == [id : 1..MaxId, name : Names, skills : SeekerFields]

JobCsvRows == [id : 1..MaxId, title : Titles, required_skills : JobFields]

\* ------------------------------------------------------------------------
\* Entities and the scorer
\* ------------------------------------------------------------------------
JobSeeker(id, name, skillstr) == [id |-> id, name |-> name, skills |-> Normalize(skillstr)]

Job(id, title, required) == [id |-> id, title |-> title, required_skills |-> Normalize(required)]

\* Variant: the percentage taken of the jobseeker's skills.
match_skills_of_seeker(js_skills, job_skills) ==
    LET matching_skills == js_skills \cap job_skills
        match_count == Cardinality(matching_skills)
        total_skills == Cardinality(js_skills)
        match_percent == IF total_skills > 0
                         THEN FMul(FDiv(match_count, total_skills), Hundred)
                         ELSE FZero
    IN  <<match_count, match_percent>>

\* match_skills: (match_count, match_percent)
match_skills(js_skills, job_skills) ==
    LET matching_skills == js_skills \cap job_skills
        match_count == Cardinality(matching_skills)
        total_required_skills == Cardinality(job_skills)
        match_percent == IF total_required_skills > 0
                         THEN FMul(FDiv(match_count, total_required_skills), Hundred)
                         ELSE FZero
    IN  <<match_count, match_percent>>

\* The record process_recommendations appends for one job.
Recommendation(js_data, job) ==
    LET m == match_skills(WorkerSkills(js_data.skills), WorkerSkills(job.required_skills))
    IN  [jobseeker_id |-> js_data.id, jobseeker_name |-> js_data.name,
         job_id |-> job.id, job_title |-> job.title,
         matching_skill_count |-> m[1], matching_skill_percent |-> m[2]]

\* Variant: jobs without a matching skill are left out.
process_recommendations_matching(js_data, job_data) ==
    SelectSeq([k \in DOMAIN job_data |-> Recommendation(js_data, job_data[k])],
              LAMBDA rec : rec.matching_skill_count > 0)

\* One record per job, in the order of job_data.
process_recommendations(js_data, job_data) ==
    [k \in DOMAIN job_data |-> Recommendation(js_data, job_data[k])]

\* ------------------------------------------------------------------------
\* sorted(recommendations, key = (jobseeker_id, -matching_skill_percent, job_id))
\* ------------------------------------------------------------------------
\* Variant: the percent ascending.
KeyLessAscending(a, b) ==
    IF a.jobseeker_id # b.jobseeker_id THEN a.jobseeker_id < b.jobseeker_id
    ELSE IF a.matching_skill_percent # b.matching_skill_percent
         THEN FLess(a.matching_skill_percent, b.matching_skill_percent)
    ELSE a.job_id < b.job_id

\* Variant: the key without the job id.
KeyLessNoJobId(a, b) ==
    IF a.jobseeker_id # b.jobseeker_id THEN a.jobseeker_id < b.jobseeker_id
    ELSE FLess(b.matching_skill_percent, a.matching_skill_percent)

\* key(a) < key(b), the keys compared as Python compares tuples.
KeyLess(a, b) ==
    IF a.jobseeker_id # b.jobseeker_id THEN a.jobseeker_id < b.jobseeker_id
    ELSE IF a.matching_skill_percent # b.matching_skill_percent
         THEN FLess(b.matching_skill_percent, a.matching_skill_percent)
    ELSE a.job_id < b.job_id

\* x put into the sorted list s behind every element whose key is not larger.
RECURSIVE InsertSorted(_, _)
InsertSorted(s, x) ==
    IF s = <<>> THEN <<x>>
    ELSE IF KeyLess(x, Head(s)) THEN <<x>> \o s
    ELSE <<Head(s)>> \o InsertSorted(Tail(s), x)

\* sorted() is stable: equal keys keep the order of the input.
RECURSIVE SortedPrefix(_, _)
SortedPrefix(s, n) == IF n = 0 THEN <<>> ELSE InsertSorted(SortedPrefix(s, n - 1), s[n])

Sorted(s) == SortedPrefix(s, Len(s))

\* [rec for sublist in results for rec in sublist]
RECURSIVE FlattenPrefix(_, _)
FlattenPrefix(res, n) == IF n = 0 THEN <<>> ELSE FlattenPrefix(res, n - 1) \o res[n]

Flatten(res) == FlattenPrefix(res, Len(res))

\* ------------------------------------------------------------------------
\* main
\* ------------------------------------------------------------------------
NormIdle ==
    /\ npc = "off"
    /\ raw = <<>>
    /\ skills = {}
    /\ column = <<>>
    /\ rebuilt = {}

Init ==
    /\ pc = "start"
    /\ jobseekers_csv \in SeqsUpTo(SeekerCsvRows, MaxSeekers)
    /\ jobs_csv \in SeqsUpTo(JobCsvRows, MaxJobs)
    /\ jobseekers = <<>>
    /\ jobs = <<>>
    /\ tbl_jobseekers = {}
    /\ tbl_jobs = {}
    /\ js_rows = <<>>
    /\ job_rows = <<>>
    /\ status = <<>>
    /\ results = <<>>
    /\ recommendations = <<>>
    /\ sorted_recommendations = <<>>
    /\ printed = 0
    /\ NormIdle

\* read_csv(file, cls): one object per row, in file order.
read_csv_JobSeeker(rows) ==
    [i \in DOMAIN rows |-> JobSeeker(rows[i].id, rows[i].name, rows[i].skills)]

read_csv_Job(rows) ==
    [i \in DOMAIN rows |-> Job(rows[i].id, rows[i].title, rows[i].required_skills)]

\* main: the two read_csv calls.
ReadCsv ==
    /\ pc = "start"
    /\ jobseekers' = read_csv_JobSeeker(jobseekers_csv)
    /\ jobs' = read_csv_Job(jobs_csv)
    /\ pc' = "read"
    /\ UNCHANGED <<jobseekers_csv, jobs_csv, tbl_jobseekers, tbl_jobs, js_rows, job_rows,
                   status, results, recommendations, sorted_recommendations, printed>>

\* main: sqlite3.connect(':memory:') and create_table: two empty tables.
create_table ==
    /\ pc = "read"
    /\ tbl_jobseekers' = {}
    /\ tbl_jobs' = {}
    /\ pc' = "created"
    /\ UNCHANGED <<jobseekers_csv, jobs_csv, jobseekers, jobs, js_rows, job_rows,
                   status, results, recommendations, sorted_recommendations, printed>>

\* id INTEGER PRIMARY KEY: a second row with an id already present is rejected.
DuplicateIds(objs) == \E i, j \in DOMAIN objs : i < j /\ objs[i].id = objs[j].id

\* insert_data: both executemany calls run in one transaction; a rejected row
\* raises out of main and the transaction is rolled back.
insert_data ==
    /\ pc = "created"
    /\ IF DuplicateIds(jobseekers) \/ DuplicateIds(jobs)
       THEN /\ pc' = "failed"
            /\ UNCHANGED <<tbl_jobseekers, tbl_jobs>>
       ELSE /\ \E cs \in [DOMAIN jobseekers ->
                            UNION {RenderSkills(jobseekers[i].skills) : i \in DOMAIN jobseekers}] :
                  /\ \A i \in DOMAIN jobseekers : cs[i] \in RenderSkills(jobseekers[i].skills)
                  /\ tbl_jobseekers' =
                        {[id |-> jobseekers[i].id, name |-> jobseekers[i].name,
                          skills |-> cs[i]] : i \in DOMAIN jobseekers}
            /\ \E cj \in [DOMAIN jobs ->
                            UNION {RenderSkills(jobs[i].required_skills) : i \in DOMAIN jobs}] :
                  /\ \A i \in DOMAIN jobs : cj[i] \in RenderSkills(jobs[i].required_skills)
                  /\ tbl_jobs' =
                        {[id |-> jobs[i].id, title |-> jobs[i].title,
                          required_skills |-> cj[i]] : i \in DOMAIN jobs}
            /\ pc' = "inserted"
    /\ UNCHANGED <<jobseekers_csv, jobs_csv, jobseekers, jobs, js_rows, job_rows,
                   status, results, recommendations, sorted_recommendations, printed>>

\* ------------------------------------------------------------------------
\* generate_recommendation_parallel
\* ------------------------------------------------------------------------
\* The two SELECTs carry no ORDER BY: the rows come back in an order the
\* query does not fix.  starmap gets one task per jobseeker.
SelectRows ==
    /\ pc = "inserted"
    /\ js_rows' \in Perms(tbl_jobseekers)
    /\ job_rows' \in Perms(tbl_jobs)
    /\ status' = [i \in 1..Cardinality(tbl_jobseekers) |-> "pending"]
    /\ results' = [i \in 1..Cardinality(tbl_jobseekers) |-> <<>>]
    /\ pc' = "dispatch"
    /\ UNCHANGED <<jobseekers_csv, jobs_csv, jobseekers, jobs, tbl_jobseekers, tbl_jobs,
                   recommendations, sorted_recommendations, printed>>

Running(st) == {i \in DOMAIN st : st[i] = "running"}

\* A free worker of the pool takes a task.
UnitStart(i) ==
    /\ pc = "dispatch"
    /\ status[i] = "pending"
    /\ Cardinality(Running(status)) < NumWorkers
    /\ status' = [status EXCEPT ![i] = "running"]
    /\ UNCHANGED <<pc, jobseekers_csv, jobs_csv, jobseekers, jobs, tbl_jobseekers, tbl_jobs,
                   js_rows, job_rows, results, recommendations, sorted_recommendations,
                   printed>>

\* Variant: the tasks write into one list they all share.
StoreResultShared(res, i, r) == [j \in DOMAIN res |-> r]

\* starmap keeps each task's return value at the task's position.
StoreResult(res, i, r) == [res EXCEPT ![i] = r]

\* The task's call of process_recommendations returns.
UnitFinish(i) ==
    /\ pc = "dispatch"
    /\ status[i] = "running"
    /\ status' = [status EXCEPT ![i] = "done"]
    /\ results' = StoreResult(results, i, process_recommendations(js_rows[i], job_rows))
    /\ UNCHANGED <<pc, jobseekers_csv, jobs_csv, jobseekers, jobs, tbl_jobseekers, tbl_jobs,
                   js_rows, job_rows, recommendations, sorted_recommendations, printed>>

\* The task's call raises in its worker process.
UnitFail(i) ==
    /\ pc = "dispatch"
    /\ status[i] = "running"
    /\ status' = [status EXCEPT ![i] = "failed"]
    /\ UNCHANGED <<pc, jobseekers_csv, jobs_csv, jobseekers, jobs, tbl_jobseekers, tbl_jobs,
                   js_rows, job_rows, results, recommendations, sorted_recommendations,
                   printed>>

\* Variant: the call returns with the first task that ends.
AnyFinished(st) == \E i \in DOMAIN st : st[i] \in {"done", "failed"}

\* starmap blocks until no task is left.
AllFinished(st) == \A i \in DOMAIN st : st[i] \in {"done", "failed"}

\* Variant: the exception of a failed task is dropped.
FailureSwallowed(st) == FALSE

\* starmap re-raises the exception of a failed task.
AnyFailed(st) == \E i \in DOMAIN st : st[i] = "failed"

\* pool.starmap returns, or raises through generate_recommendation_parallel
\* and main.
StarmapReturn ==
    /\ pc = "dispatch"
    /\ AllFinished(status)
    /\ pc' = IF AnyFailed(status) THEN "failed" ELSE "joined"
    /\ UNCHANGED <<jobseekers_csv, jobs_csv, jobseekers, jobs, tbl_jobseekers, tbl_jobs,
                   js_rows, job_rows, status, results, recommendations,
                   sorted_recommendations, printed>>

FlattenResults ==
    /\ pc = "joined"
    /\ recommendations' = Flatten(results)
    /\ pc' = "flattened"
    /\ UNCHANGED <<jobseekers_csv, jobs_csv, jobseekers, jobs, tbl_jobseekers, tbl_jobs,
                   js_rows, job_rows, status, results, sorted_recommendations, printed>>

SortAndReturn ==
    /\ pc = "flattened"
    /\ sorted_recommendations' = Sorted(recommendations)
    /\ pc' = "returned"
    /\ UNCHANGED <<jobseekers_csv, jobs_csv, jobseekers, jobs, tbl_jobseekers, tbl_jobs,
                   js_rows, job_rows, status, results, recommendations, printed>>

\* ------------------------------------------------------------------------
\* main: the report
\* ------------------------------------------------------------------------
PrintHeader ==
    /\ pc = "returned"
    /\ printed' = 1
    /\ pc' = "printing"
    /\ UNCHANGED <<jobseekers_csv, jobs_csv, jobseekers, jobs, tbl_jobseekers, tbl_jobs,
                   js_rows, job_rows, status, results, recommendations,
                   sorted_recommendations>>

\* One line per recommendation; main ends behind the last one.
PrintRow ==
    /\ pc = "printing"
    /\ IF printed - 1 < Len(sorted_recommendations)
       THEN printed' = printed + 1 /\ pc' = pc
       ELSE printed' = printed /\ pc' = "done"
    /\ UNCHANGED <<jobseekers_csv, jobs_csv, jobseekers, jobs, tbl_jobseekers, tbl_jobs,
                   js_rows, job_rows, status, results, recommendations,
                   sorted_recommendations>>

Next ==
    \/ ReadCsv /\ UNCHANGED normVars
    \/ create_table /\ UNCHANGED normVars
    \/ insert_data /\ UNCHANGED normVars
    \/ SelectRows /\ UNCHANGED normVars
    \/ \E i \in DOMAIN status : UnitStart(i) /\ UNCHANGED normVars
    \/ \E i \in DOMAIN status : UnitFinish(i) /\ UNCHANGED normVars
    \/ \E i \in DOMAIN status : UnitFail(i) /\ UNCHANGED normVars
    \/ StarmapReturn /\ UNCHANGED normVars
    \/ FlattenResults /\ UNCHANGED normVars
    \/ SortAndReturn /\ UNCHANGED normVars
    \/ PrintHeader /\ UNCHANGED normVars
    \/ PrintRow /\ UNCHANGED normVars

Spec == Init /\ [][Next]_vars

\* ------------------------------------------------------------------------
\* One skill field on its way through the store: constructor, insert_data,
\* the worker's split.  The raw field ranges over every string of at most
\* MaxLen characters of Chars.
\* ------------------------------------------------------------------------
MainIdle ==
    /\ pc = "off"
    /\ jobseekers_csv = <<>>
    /\ jobs_csv = <<>>
    /\ jobseekers = <<>>
    /\ jobs = <<>>
    /\ tbl_jobseekers = {}
    /\ tbl_jobs = {}
    /\ js_rows = <<>>
    /\ job_rows = <<>>
    /\ status = <<>>
    /\ results = <<>>
    /\ recommendations = <<>>
    /\ sorted_recommendations = <<>>
    /\ printed = 0

InitNorm ==
    /\ npc = "raw"
    /\ raw \in SeqsUpTo(Chars, MaxLen)
    /\ skills = {}
    /\ column = <<>>
    /\ rebuilt = {}
    /\ MainIdle

\* JobSeeker.__init__ / Job.__init__
Construct ==
    /\ npc = "raw"
    /\ skills' = Normalize(raw)
    /\ npc' = "built"
    /\ UNCHANGED <<raw, column, rebuilt>>

\* insert_data: the column value of the row.
StoreColumn ==
    /\ npc = "built"
    /\ column' \in RenderSkills(skills)
    /\ npc' = "stored"
    /\ UNCHANGED <<raw, skills, rebuilt>>

\* process_recommendations: the set rebuilt from the column.
WorkerSplit ==
    /\ npc = "stored"
    /\ rebuilt' = WorkerSkills(column)
    /\ npc' = "rebuilt"
    /\ UNCHANGED <<raw, skills, column>>

NextNorm ==
    \/ Construct /\ UNCHANGED mainVars
    \/ StoreColumn /\ UNCHANGED mainVars
    \/ WorkerSplit /\ UNCHANGED mainVars

SpecNorm == InitNorm /\ [][NextNorm]_vars

\* ------------------------------------------------------------------------
\* Properties of skill normalisation (SpecNorm)
\* ------------------------------------------------------------------------
\* The pieces of s between commas, as pairs <<first, last>> of positions
\* (last = first - 1 for an empty piece).
PieceBounds(s) ==
    {b \in (1..(Len(s) + 1)) \X (0..Len(s)) :
        /\ b[2] >= b[1] - 1
        /\ (b[1] = 1 \/ s[b[1] - 1] = ",")
        /\ (b[2] = Len(s) \/ s[b[2] + 1] = ",")
        /\ \A k \in b[1]..b[2] : s[k] # ","}

\* The piece s[first..last] without its surrounding blanks, in lower case.
TrimmedLower(s, first, last) ==
    LET solid == {k \in first..last : s[k] # " "}
    IN  IF solid = {} THEN <<>>
        ELSE LET a == CHOOSE k \in solid : \A x \in solid : k <= x
                 b == CHOOSE k \in solid : \A x \in solid : k >= x
             IN  [x \in 1..(b - a + 1) |-> IF s[a + x - 1] = "A" THEN "a" ELSE s[a + x - 1]]

TokensOf(s) == {TrimmedLower(s, b[1], b[2]) : b \in PieceBounds(s)}

\* C8 as stated: the constructor's set is the set of the trimmed, lower-cased
\* pieces between commas (duplicates collapsing), and the empty raw string
\* gives the empty set.
C8_Original ==
    npc # "raw" =>
        /\ skills = TokensOf(raw)
        /\ raw = <<>> => skills = {}

\* C10: the column insert_data stores, whatever the order of the tokens in it,
\* parses back to the constructor's set: the worker's plain split of the column
\* gives that set, and so does normalising the column again.
C10_StoreRoundTrip ==
    /\ npc = "rebuilt" => rebuilt = skills
    /\ npc \in {"stored", "rebuilt"} => Normalize(column) = skills

\* A field with blanks and capitals, two tokens, has gone through the store.
C10_Witness ==
    /\ npc = "rebuilt"
    /\ Cardinality(skills) >= 2
    /\ column # raw
    /\ \E i \in DOMAIN raw : raw[i] \in {" ", "A"}

\* ------------------------------------------------------------------------
\* Exact arithmetic on the value of a float, for the properties of the score:
\* a natural number is a sequence of limbs below Base, most significant first.
\* ------------------------------------------------------------------------
RECURSIVE BigNorm(_)
BigNorm(b) == IF b # <<>> /\ Head(b) = 0 THEN BigNorm(Tail(b)) ELSE b

RECURSIVE MulLimbs(_, _, _, _)
MulLimbs(b, k, i, carry) ==
    IF i = 0 THEN <<carry>>
    ELSE LET v == b[i] * k + carry
         IN  MulLimbs(b, k, i - 1, v \div Base) \o <<v % Base>>

\* b * k for a small natural k.
BigTimes(b, k) == BigNorm(MulLimbs(b, k, Len(b), 0))

\* b * Base^n
BigShift(b, n) == b \o [i \in 1..n |-> 0]

BigPad(b, n) == [i \in 1..(n - Len(b)) |-> 0] \o b

RECURSIVE AddLimbs(_, _, _, _)
AddLimbs(a, b, i, carry) ==
    IF i = 0 THEN <<carry>>
    ELSE LET v == a[i] + b[i] + carry
         IN  AddLimbs(a, b, i - 1, v \div Base) \o <<v % Base>>

BigAdd(a, b) ==
    LET n == IF Len(a) > Len(b) THEN Len(a) ELSE Len(b)
    IN  BigNorm(AddLimbs(BigPad(a, n), BigPad(b, n), n, 0))

RECURSIVE LimbsLeq(_, _)
LimbsLeq(a, b) ==
    IF a = <<>> THEN TRUE
    ELSE IF Head(a) # Head(b) THEN Head(a) < Head(b)
    ELSE LimbsLeq(Tail(a), Tail(b))

BigLeq(a, b) ==
    LET x == BigNorm(a)
        y == BigNorm(b)
    IN  IF Len(x) # Len(y) THEN Len(x) < Len(y) ELSE LimbsLeq(x, y)

\* The naturals X = mantissa(x) * t and Y = n * 2^(-x.e): x * t = n exactly
\* when X = Y (x.e <= 0, n < 2^13).
ScaledLeft(x, t) == BigTimes(x.m, t)

ScaledRight(x, n) ==
    LET a == (0 - x.e) \div 18
        b == (0 - x.e) % 18
        v == n * 2^b
    IN  BigNorm(BigShift(<<v \div Base, v % Base>>, a))

\* x * t = n, exactly.
ExactProduct(x, t, n) == ScaledLeft(x, t) = ScaledRight(x, n)

\* |x * t - n| <= n * 2^(-51): what two roundings to nearest can lose.
RoundedProduct(x, t, n) ==
    LET X   == BigShift(ScaledLeft(x, t), 3)
        Y   == BigShift(ScaledRight(x, n), 3)
        tol == BigTimes(ScaledRight(x, n), 8)
    IN  BigLeq(X, BigAdd(Y, tol)) /\ BigLeq(Y, BigAdd(X, tol))

\* ------------------------------------------------------------------------
\* Properties of the pipeline (Spec)
\* ------------------------------------------------------------------------
\* generate_recommendation_parallel has returned to main.
Returned == pc \in {"returned", "printing", "done"}

\* Every recommendation a task has returned so far.
Produced == UNION {Range(results[i]) : i \in DOMAIN results}

\* The objects main built for the ids of a recommendation.
SeekerOf(rec) == CHOOSE o \in Range(jobseekers) : o.id = rec.jobseeker_id

JobOf(rec) == CHOOSE o \in Range(jobs) : o.id = rec.job_id

\* r comes before q in the order (jobseeker_id ascending, percent descending,
\* job_id ascending).
RankedBefore(r, q) ==
    \/ r.jobseeker_id < q.jobseeker_id
    \/ /\ r.jobseeker_id = q.jobseeker_id
       /\ FLess(q.matching_skill_percent, r.matching_skill_percent)
    \/ /\ r.jobseeker_id = q.jobseeker_id
       /\ r.matching_skill_percent = q.matching_skill_percent
       /\ r.job_id < q.job_id

\* C1: the returned list holds exactly one recommendation for every pair of a
\* jobseeker row and a job row, zero-match pairs included, and nothing else.
C1_CrossProduct ==
    Returned =>
        /\ Len(sorted_recommendations) = Len(jobseekers_csv) * Len(jobs_csv)
        /\ \A i \in DOMAIN jobseekers_csv : \A k \in DOMAIN jobs_csv :
              Cardinality({n \in DOMAIN sorted_recommendations :
                              /\ sorted_recommendations[n].jobseeker_id = jobseekers_csv[i].id
                              /\ sorted_recommendations[n].job_id = jobs_csv[k].id}) = 1

\* Two jobseekers and two jobs gave four recommendations, one of them with no
\* matching skill.
C1_Witness ==
    /\ Returned
    /\ Len(jobseekers_csv) = 2
    /\ Len(jobs_csv) = 2
    /\ Len(sorted_recommendations) = 4
    /\ \E n \in DOMAIN sorted_recommendations :
          sorted_recommendations[n].matching_skill_count = 0

\* C2 as stated: for every recommendation produced, the count is the size of
\* the intersection of the two skill sets, percent * |required| = 100 * count
\* exactly when required is non-empty and percent = 0 otherwise, and
\* count <= |required|.
C2_Original ==
    \A rec \in Produced :
        LET S == SeekerOf(rec).skills
            R == JobOf(rec).required_skills
        IN  /\ rec.matching_skill_count = Cardinality(S \cap R)
            /\ R # {} => ExactProduct(rec.matching_skill_percent, Cardinality(R),
                                      100 * rec.matching_skill_count)
            /\ R = {} => rec.matching_skill_percent = FZero
            /\ rec.matching_skill_count <= Cardinality(R)

\* C2 amended: the count is the size of the intersection and is at most
\* |required|; percent * |required| equals 100 * count up to the rounding of
\* the two float operations (relative error at most 2^-51), exactly when the
\* count is 0 or every required skill is held (percent 0 and 100); percent is
\* 0 when required is empty.
C2_ScoreInvariant ==
    \A rec \in Produced :
        LET S == SeekerOf(rec).skills
            R == JobOf(rec).required_skills
            c == rec.matching_skill_count
            p == rec.matching_skill_percent
        IN  /\ c = Cardinality(S \cap R)
            /\ c <= Cardinality(R)
            /\ R # {} => RoundedProduct(p, Cardinality(R), 100 * c)
            /\ (R # {} /\ c \in {0, Cardinality(R)}) => ExactProduct(p, Cardinality(R), 100 * c)
            /\ c = 0 => p = FZero
            /\ R = {} => p = FZero
            /\ (R # {} /\ c = Cardinality(R)) <=> p = FMul(FDiv(1, 1), 100)

\* A recommendation has been produced whose percent is not the exact quotient:
\* some but not all of three required skills are held.
C2_Witness ==
    \E rec \in Produced :
        /\ rec.matching_skill_count > 0
        /\ rec.matching_skill_count < Cardinality(JobOf(rec).required_skills)
        /\ ~ExactProduct(rec.matching_skill_percent, Cardinality(JobOf(rec).required_skills),
                         100 * rec.matching_skill_count)

\* C3: in the returned list every record comes strictly before its successor
\* in the order (jobseeker_id ascending, percent descending, job_id
\* ascending); the records of one jobseeker are contiguous.
C3_TotalOrder ==
    Returned =>
        /\ \A n \in 1..(Len(sorted_recommendations) - 1) :
              RankedBefore(sorted_recommendations[n], sorted_recommendations[n + 1])
        /\ \A a, b, c \in DOMAIN sorted_recommendations :
              (a < b /\ b < c /\ sorted_recommendations[a].jobseeker_id
                                  = sorted_recommendations[c].jobseeker_id)
              => sorted_recommendations[b].jobseeker_id
                    = sorted_recommendations[a].jobseeker_id

\* Two jobseekers, and for one of them two jobs of different percent and for
\* one two jobs of equal percent, have been ranked.
C3_Witness ==
    /\ Returned
    /\ Len(sorted_recommendations) = 4
    /\ sorted_recommendations[1].jobseeker_id # sorted_recommendations[4].jobseeker_id
    /\ \E n \in 1..3 :
          /\ sorted_recommendations[n].jobseeker_id = sorted_recommendations[n + 1].jobseeker_id
          /\ sorted_recommendations[n].matching_skill_percent
                = sorted_recommendations[n + 1].matching_skill_percent
    /\ \E n \in 1..3 :
          /\ sorted_recommendations[n].jobseeker_id = sorted_recommendations[n + 1].jobseeker_id
          /\ sorted_recommendations[n].matching_skill_percent
                # sorted_recommendations[n + 1].matching_skill_percent

\* The list a run without a pool computes: process_recommendations for each
\* jobseeker in turn, flattened and sorted.
SequentialRanked ==
    Sorted(Flatten([i \in DOMAIN js_rows |-> process_recommendations(js_rows[i], job_rows)]))

\* C4: whatever the schedule of the tasks was, the returned list is the one
\* the sequential computation over the same rows gives.
C4_ScheduleIndependent == Returned => sorted_recommendations = SequentialRanked

\* Two tasks ran and the rows were dispatched against the final order.
C4_Witness ==
    /\ Returned
    /\ Len(status) = 2
    /\ Len(job_rows) = 2
    /\ js_rows[1].id > js_rows[2].id
    /\ sorted_recommendations # recommendations

\* The recommendation of a pair of CSV rows.
PairRecord(s, j) ==
    LET S == Normalize(s.skills)
        R == Normalize(j.required_skills)
    IN  [jobseeker_id |-> s.id, jobseeker_name |-> s.name,
         job_id |-> j.id, job_title |-> j.title,
         matching_skill_count |-> Cardinality(S \cap R),
         matching_skill_percent |-> FMul(FDiv(Cardinality(S \cap R), Cardinality(R)), Hundred)]

\* All pairs of the two files, as a set: the order of the rows plays no part.
PairRecords == {PairRecord(s, j) : s \in Range(jobseekers_csv), j \in Range(jobs_csv)}

\* C5: the returned list depends on the sets of rows only, not on the order
\* they were supplied in: its n-th record is the pair record that exactly
\* n - 1 pair records precede in the ranking order.
C5_OrderIndependent ==
    Returned =>
        LET pairs == PairRecords
        IN  /\ Range(sorted_recommendations) = pairs
            /\ \A n \in DOMAIN sorted_recommendations :
                  Cardinality({q \in pairs : RankedBefore(q, sorted_recommendations[n])})
                     = n - 1

\* Both files listed their rows by descending id, the rows were dispatched by
\* descending id, and two jobs tie for a jobseeker.
C5_Witness ==
    /\ Returned
    /\ Len(jobseekers_csv) = 2 /\ jobseekers_csv[1].id > jobseekers_csv[2].id
    /\ Len(jobs_csv) = 2 /\ jobs_csv[1].id > jobs_csv[2].id
    /\ js_rows[1].id > js_rows[2].id
    /\ job_rows[1].id > job_rows[2].id
    /\ sorted_recommendations[1].matching_skill_percent
          = sorted_recommendations[2].matching_skill_percent

\* C6: once the flattening has begun or the call has returned, every task has
\* completed and its whole result list is in place.
C6_JoinBeforeRanking ==
    pc \in {"joined", "flattened", "returned", "printing", "done"} =>
        /\ Len(status) = Len(js_rows)
        /\ \A i \in DOMAIN status :
              /\ status[i] = "done"
              /\ Len(results[i]) = Len(job_rows)

\* Flattening has begun over the results of two tasks.
C6_Witness ==
    /\ pc = "flattened"
    /\ Len(status) = 2
    /\ Len(recommendations) = 4

\* C7: when a task has failed, generate_recommendation_parallel never returns
\* a list and main prints nothing.
C7_FailureIsFatal ==
    (\E i \in DOMAIN status : status[i] = "failed") =>
        /\ pc \in {"dispatch", "failed"}
        /\ recommendations = <<>>
        /\ sorted_recommendations = <<>>
        /\ printed = 0

\* One task succeeded, another failed, and the failure reached main.
C7_Witness ==
    /\ pc = "failed"
    /\ \E i \in DOMAIN status : status[i] = "failed"
    /\ \E i \in DOMAIN status : status[i] = "done" /\ results[i] # <<>>

SkillTokens == {<<>>, <<"a">>, <<"b">>}

\* C9 as stated: match_skills(A, {}) is (0, 0) for every A, and every
\* recommendation against a job whose required-skills field is empty has
\* count 0 and percent 0.
C9_Original ==
    /\ \A A \in SUBSET SkillTokens : match_skills(A, {}) = <<0, FZero>>
    /\ \A k \in DOMAIN jobs_csv :
          jobs_csv[k].required_skills = <<>> =>
              \A rec \in Produced :
                  rec.job_id = jobs_csv[k].id =>
                      /\ rec.matching_skill_count = 0
                      /\ rec.matching_skill_percent = FZero

====
